---- MODULE Spec2Model ----
(***************************************************************************)
(* Model of serverSessionMedia (server_session_media.go): the per-media    *)
(* transport unit of a server session.  One session with its media units   *)
(* is modelled together with the collaborators the unit talks to: the two  *)
(* shared UDP listeners, the session's channel table, the per-format       *)
(* pipelines, the decode-error callback and the RTCP observer.             *)
(***************************************************************************)
EXTENDS Integers, Sequences, FiniteSets, TLC

(***************************************************************************)
(* Bounds of the model.                                                    *)
(***************************************************************************)
MaxDeliveries == 2      \* inbound deliveries (datagrams or frames) per behaviour
MaxWrites == 2          \* invocations of a write strategy per behaviour
MaxTime == 2            \* the clock runs from 1 to MaxTime

(***************************************************************************)
(* Program constants.                                                      *)
(***************************************************************************)
udpMaxPayloadSize == 1472

Units == {1, 2}

\* sm.media.Formats: the payload types negotiated for each media.
MediaFormats(sm) == IF sm = 1 THEN {96, 97} ELSE {96}

\* sm.tcpChannel, sm.udpRTPReadPort, sm.udpRTCPReadPort and the two write
\* addresses are set at SETUP; the control one is adjacent to the data one.
tcpChannel(sm) == 2 * (sm - 1)
udpRTPReadPort(sm) == 5000 + 2 * (sm - 1)
udpRTCPReadPort(sm) == udpRTPReadPort(sm) + 1
udpRTPWriteAddr(sm) == udpRTPReadPort(sm)
udpRTCPWriteAddr(sm) == udpRTCPReadPort(sm)

Transports == {"TransportUDP", "TransportUDPMulticast", "TransportTCP"}
States == {"ServerSessionStatePlay", "ServerSessionStateRecord"}

(***************************************************************************)
(* Payloads.  A payload is a byte string; the model keeps its length and   *)
(* what the two codecs make of it.  enc = "rtp": rtp.Packet.Unmarshal      *)
(* succeeds and yields payload type pt and SSRC ssrc.  enc = "rtcp":       *)
(* rtcp.Unmarshal succeeds and yields the sub-packets subs.  enc = "bad":  *)
(* both codecs reject the bytes.                                           *)
(***************************************************************************)
PayloadTypes == {96, 97, 98}
SSRCs == {1, 2}
\* Lengths: an ordinary one, the largest a UDP datagram may have, and the
\* length at which the listener's read buffer is full.
Lens == {64, udpMaxPayloadSize, udpMaxPayloadSize + 1}

SenderReport(ssrc) == [typ |-> "SenderReport", ssrc |-> ssrc]
ReceiverReport(ssrc) == [typ |-> "ReceiverReport", ssrc |-> ssrc]
SubPackets == {SenderReport(s) : s \in SSRCs} \cup {ReceiverReport(0)}
\* The compound packets the peer sends: one report, or two of which the
\* first is a sender report.
Compounds ==
    {<<a>> : a \in SubPackets}
    \cup {<<SenderReport(1), b>> : b \in SubPackets}
    \cup {<<ReceiverReport(0), SenderReport(1)>>}

RTPPayload(len, pt, ssrc) == [len |-> len, enc |-> "rtp", pt |-> pt, ssrc |-> ssrc, subs |-> <<>>]
RTCPPayload(len, subs) == [len |-> len, enc |-> "rtcp", pt |-> 0, ssrc |-> 0, subs |-> subs]
BadPayload(len) == [len |-> len, enc |-> "bad", pt |-> 0, ssrc |-> 0, subs |-> <<>>]

\* Inbound payloads: every content at the ordinary length, and one content
\* of each encoding at every length.
Payloads ==
    {RTPPayload(64, pt, s) : pt \in PayloadTypes, s \in SSRCs}
    \cup {RTCPPayload(64, c) : c \in Compounds}
    \cup {RTPPayload(l, 96, 1) : l \in Lens}
    \cup {RTCPPayload(l, <<SenderReport(1)>>) : l \in Lens}
    \cup {BadPayload(l) : l \in Lens}

\* The datagrams of the concurrent UDP ingress: one for each way a read ends.
ClockPayloads ==
    {RTPPayload(64, 96, 1), RTPPayload(64, 98, 1), RTCPPayload(64, <<SenderReport(1)>>),
     BadPayload(64), BadPayload(udpMaxPayloadSize + 1)}

\* (&rtp.Packet{Header: rtp.Header{Version: 2}}).Marshal(): a bare 12-byte header.
EmptyRTP == RTPPayload(12, 0, 0)
\* (&rtcp.ReceiverReport{}).Marshal(): header and SSRC, no reception reports.
EmptyRTCP == RTCPPayload(8, <<ReceiverReport(0)>>)

\* pkt.Unmarshal(payload)
rtpUnmarshal(payload) ==
    IF payload.enc = "rtp"
    THEN [err |-> FALSE, PayloadType |-> payload.pt, SSRC |-> payload.ssrc]
    ELSE [err |-> TRUE, PayloadType |-> 0, SSRC |-> 0]

\* rtcp.Unmarshal(payload)
rtcpUnmarshal(payload) ==
    IF payload.enc = "rtcp"
    THEN [err |-> FALSE, packets |-> payload.subs]
    ELSE [err |-> TRUE, packets |-> <<>>]

(***************************************************************************)
(* Every call a handler makes on a collaborator is an event; a handler's   *)
(* result is the sequence of its events, in program order.                 *)
(***************************************************************************)
Ev(name, a, b) == [ev |-> name, a |-> a, b |-> b, fn |-> ""]
EvFn(name, a, fn) == [ev |-> name, a |-> a, b |-> 0, fn |-> fn]

\* The events of `trace` whose name is in `names`, in order.
Events(trace, names) == SelectSeq(trace, LAMBDA e : e.ev \in names)

DecodeErrors ==
    {"onDecodeError(ErrServerRTPPacketTooBigUDP)",
     "onDecodeError(ErrServerRTCPPacketTooBigUDP)",
     "onDecodeError(ErrServerRTCPPacketTooBig)",
     "onDecodeError(ErrServerRTPPacketUnknownPayloadType)",
     "onDecodeError(rtp.Unmarshal)",
     "onDecodeError(rtcp.Unmarshal)"}
CodecCalls == {"rtp.Unmarshal", "rtcp.Unmarshal"}
PipelineCalls == {"readRTPUDP", "readRTPTCP", "ProcessSenderReport"}

VARIABLES
    setuppedTransport,      \* *sm.ss.setuppedTransport
    state,                  \* sm.ss.state
    formats,                \* sm.formats: the payload types of each unit's map
    formatStarted,          \* per unit and payload type: the pipeline runs
    senderSSRC,             \* per unit and payload type: rtcpReceiver.SenderSSRC() as [ok, ssrc]
    writePacketRTPInQueue,  \* per unit: the data write slot
    writePacketRTCPInQueue, \* per unit: the control write slot
    udpRTPClients,          \* udpRTPListener: port -> callback
    udpRTCPClients,         \* udpRTCPListener: port -> callback
    tcpCallbackByChannel,   \* sm.ss.tcpCallbackByChannel: channel -> callback
    bytesSent,              \* *sm.ss.bytesSent
    bytesReceived,          \* *sm.ss.bytesReceived
    udpLastPacketTime,      \* *sm.ss.udpLastPacketTime
    tcpFrame,               \* sm.ss.tcpFrame
    writeDeadline,          \* the connection's write deadline
    now,                    \* the clock behind sm.ss.s.timeNow()
    wpc,                    \* per unit: the statements its writer has still to run
    wpayload,               \* per unit: the payload its writer was called with
    lifecycle,              \* per unit: "new", "started" or "stopped"
    nDeliveries,            \* number of inbound deliveries
    nWrites,                \* number of write strategy invocations
    rpc,                    \* per UDP listener: the callback its read loop is running
    sentTotal,              \* sum of the payload sizes given to the write strategies
    last,                   \* record of the last start(), stop() or inbound delivery
    lastWrite               \* record of the last write

vars == <<setuppedTransport, state, formats, formatStarted, senderSSRC,
          writePacketRTPInQueue, writePacketRTCPInQueue, udpRTPClients,
          udpRTCPClients, tcpCallbackByChannel, bytesSent, bytesReceived,
          udpLastPacketTime, tcpFrame, writeDeadline, now, wpc, wpayload,
          lifecycle, nDeliveries, nWrites, rpc, sentTotal, last, lastWrite>>

\* A callback value: the method fn bound to the unit sm; NoCb is the nil func.
Cb(fn, sm) == [fn |-> fn, sm |-> sm]
NoCb == Cb("", 0)

Ports == {udpRTPReadPort(sm) : sm \in Units} \cup {udpRTCPReadPort(sm) : sm \in Units}
Channels == {tcpChannel(sm) : sm \in Units} \cup {tcpChannel(sm) + 1 : sm \in Units}

\* The orders in which a range over sm.formats may visit its keys.
Orders(sm) ==
    {o \in [1..Cardinality(formats[sm]) -> formats[sm]] :
        \A i, j \in DOMAIN o : i # j => o[i] # o[j]}

(***************************************************************************)
(* findFormatWithSSRC: ord is the order in which the range visits the map. *)
(***************************************************************************)
RECURSIVE findFormatFrom(_, _, _, _)
findFormatFrom(sm, ssrc, ord, i) ==
    IF i > Len(ord) THEN 0
    ELSE LET format == ord[i]
             tssrc == senderSSRC[sm][format]
         IN IF tssrc.ok /\ tssrc.ssrc = ssrc
            THEN format
            ELSE findFormatFrom(sm, ssrc, ord, i + 1)

\* Mutant of findFormatWithSSRC: the first format is taken, whatever it has seen.
findFormatWithSSRC_First(sm, ssrc, ord) == IF ord = <<>> THEN 0 ELSE ord[1]

findFormatWithSSRC(sm, ssrc, ord) == findFormatFrom(sm, ssrc, ord, 1)

(***************************************************************************)
(* The read handlers.  Each yields its return value and its events.        *)
(***************************************************************************)
Ret(ret, trace) == [ret |-> ret, trace |-> trace]

\* for _, pkt := range packets { sm.onPacketRTCP(pkt) }
RECURSIVE rtcpLoopPlay(_, _)
rtcpLoopPlay(packets, i) ==
    IF i > Len(packets) THEN <<>>
    ELSE <<Ev("onPacketRTCP", i, 0)>> \o rtcpLoopPlay(packets, i + 1)

\* The loop of the record handlers: correlate sender reports, then observe.
RECURSIVE rtcpLoopRecord(_, _, _, _)
rtcpLoopRecord(sm, packets, ords, i) ==
    IF i > Len(packets) THEN <<>>
    ELSE LET pkt == packets[i]
             format == IF pkt.typ = "SenderReport"
                       THEN findFormatWithSSRC(sm, pkt.ssrc, ords[i])
                       ELSE 0
         IN (IF format # 0 THEN <<Ev("ProcessSenderReport", format, i)>> ELSE <<>>)
            \o <<Ev("onPacketRTCP", i, 0)>>
            \o rtcpLoopRecord(sm, packets, ords, i + 1)

\* Mutant of readRTCPUDPPlay: the size guard is off by one.
readRTCPUDPPlay_GuardOffByOne(sm, payload, ords) ==
    LET plen == payload.len
        t0 == <<Ev("AddUint64(bytesReceived)", plen, 0)>>
    IN IF plen = udpMaxPayloadSize + 2
       THEN Ret(FALSE, t0 \o <<Ev("onDecodeError(ErrServerRTCPPacketTooBigUDP)", 0, 0)>>)
       ELSE LET r == rtcpUnmarshal(payload)
                t1 == t0 \o <<Ev("rtcp.Unmarshal", plen, 0)>>
            IN IF r.err
               THEN Ret(FALSE, t1 \o <<Ev("onDecodeError(rtcp.Unmarshal)", 0, 0)>>)
               ELSE Ret(TRUE, t1 \o <<Ev("StoreInt64(udpLastPacketTime)", now, 0)>>
                              \o rtcpLoopPlay(r.packets, 1))

readRTCPUDPPlay(sm, payload, ords) ==
    LET plen == payload.len
        t0 == <<Ev("AddUint64(bytesReceived)", plen, 0)>>
    IN IF plen = udpMaxPayloadSize + 1
       THEN Ret(FALSE, t0 \o <<Ev("onDecodeError(ErrServerRTCPPacketTooBigUDP)", 0, 0)>>)
       ELSE LET r == rtcpUnmarshal(payload)
                t1 == t0 \o <<Ev("rtcp.Unmarshal", plen, 0)>>
            IN IF r.err
               THEN Ret(FALSE, t1 \o <<Ev("onDecodeError(rtcp.Unmarshal)", 0, 0)>>)
               ELSE Ret(TRUE, t1 \o <<Ev("StoreInt64(udpLastPacketTime)", now, 0)>>
                              \o rtcpLoopPlay(r.packets, 1))

\* Mutant of readRTPUDPRecord: only a datagram that is routed is counted.
readRTPUDPRecord_CountRouted(sm, payload, ords) ==
    LET plen == payload.len
    IN IF plen = udpMaxPayloadSize + 1
       THEN Ret(FALSE, <<Ev("onDecodeError(ErrServerRTPPacketTooBigUDP)", 0, 0)>>)
       ELSE LET pkt == rtpUnmarshal(payload)
                t1 == <<Ev("rtp.Unmarshal", plen, 0)>>
            IN IF pkt.err
               THEN Ret(FALSE, t1 \o <<Ev("onDecodeError(rtp.Unmarshal)", 0, 0)>>)
               ELSE IF pkt.PayloadType \notin formats[sm]
               THEN Ret(FALSE, t1 \o <<Ev("onDecodeError(ErrServerRTPPacketUnknownPayloadType)",
                                          pkt.PayloadType, 0)>>)
               ELSE Ret(TRUE, t1 \o <<Ev("AddUint64(bytesReceived)", plen, 0),
                                      Ev("StoreInt64(udpLastPacketTime)", now, 0),
                                      Ev("readRTPUDP", pkt.PayloadType, pkt.SSRC)>>)

\* Mutant of readRTPUDPRecord: the timestamp is stored before the format lookup.
readRTPUDPRecord_StoreBeforeLookup(sm, payload, ords) ==
    LET plen == payload.len
        t0 == <<Ev("AddUint64(bytesReceived)", plen, 0)>>
    IN IF plen = udpMaxPayloadSize + 1
       THEN Ret(FALSE, t0 \o <<Ev("onDecodeError(ErrServerRTPPacketTooBigUDP)", 0, 0)>>)
       ELSE LET pkt == rtpUnmarshal(payload)
                t1 == t0 \o <<Ev("rtp.Unmarshal", plen, 0)>>
                t2 == t1 \o <<Ev("StoreInt64(udpLastPacketTime)", now, 0)>>
            IN IF pkt.err
               THEN Ret(FALSE, t1 \o <<Ev("onDecodeError(rtp.Unmarshal)", 0, 0)>>)
               ELSE IF pkt.PayloadType \notin formats[sm]
               THEN Ret(FALSE, t2 \o <<Ev("onDecodeError(ErrServerRTPPacketUnknownPayloadType)",
                                          pkt.PayloadType, 0)>>)
               ELSE Ret(TRUE, t2 \o <<Ev("readRTPUDP", pkt.PayloadType, pkt.SSRC)>>)

\* Mutant of readRTPUDPRecord: the error does not carry the payload type.
readRTPUDPRecord_NoPayloadType(sm, payload, ords) ==
    LET plen == payload.len
        t0 == <<Ev("AddUint64(bytesReceived)", plen, 0)>>
    IN IF plen = udpMaxPayloadSize + 1
       THEN Ret(FALSE, t0 \o <<Ev("onDecodeError(ErrServerRTPPacketTooBigUDP)", 0, 0)>>)
       ELSE LET pkt == rtpUnmarshal(payload)
                t1 == t0 \o <<Ev("rtp.Unmarshal", plen, 0)>>
            IN IF pkt.err
               THEN Ret(FALSE, t1 \o <<Ev("onDecodeError(rtp.Unmarshal)", 0, 0)>>)
               ELSE IF pkt.PayloadType \notin formats[sm]
               THEN Ret(FALSE, t1 \o <<Ev("onDecodeError(ErrServerRTPPacketUnknownPayloadType)",
                                          0, 0)>>)
               ELSE Ret(TRUE, t1 \o <<Ev("StoreInt64(udpLastPacketTime)", now, 0),
                                      Ev("readRTPUDP", pkt.PayloadType, pkt.SSRC)>>)

readRTPUDPRecord(sm, payload, ords) ==
    LET plen == payload.len
        t0 == <<Ev("AddUint64(bytesReceived)", plen, 0)>>
    IN IF plen = udpMaxPayloadSize + 1
       THEN Ret(FALSE, t0 \o <<Ev("onDecodeError(ErrServerRTPPacketTooBigUDP)", 0, 0)>>)
       ELSE LET pkt == rtpUnmarshal(payload)
                t1 == t0 \o <<Ev("rtp.Unmarshal", plen, 0)>>
            IN IF pkt.err
               THEN Ret(FALSE, t1 \o <<Ev("onDecodeError(rtp.Unmarshal)", 0, 0)>>)
               ELSE IF pkt.PayloadType \notin formats[sm]
               THEN Ret(FALSE, t1 \o <<Ev("onDecodeError(ErrServerRTPPacketUnknownPayloadType)",
                                          pkt.PayloadType, 0)>>)
               ELSE Ret(TRUE, t1 \o <<Ev("StoreInt64(udpLastPacketTime)", now, 0),
                                      Ev("readRTPUDP", pkt.PayloadType, pkt.SSRC)>>)

\* Mutant of readRTCPUDPRecord: the bytes are counted after the size guard.
readRTCPUDPRecord_CountAfterGuard(sm, payload, ords) ==
    LET plen == payload.len
        t0 == <<Ev("AddUint64(bytesReceived)", plen, 0)>>
    IN IF plen = udpMaxPayloadSize + 1
       THEN Ret(FALSE, <<Ev("onDecodeError(ErrServerRTCPPacketTooBigUDP)", 0, 0)>>)
       ELSE LET r == rtcpUnmarshal(payload)
                t1 == t0 \o <<Ev("rtcp.Unmarshal", plen, 0)>>
            IN IF r.err
               THEN Ret(FALSE, t1 \o <<Ev("onDecodeError(rtcp.Unmarshal)", 0, 0)>>)
               ELSE Ret(TRUE, t1 \o <<Ev("StoreInt64(udpLastPacketTime)", now, 0)>>
                              \o rtcpLoopRecord(sm, r.packets, ords, 1))

readRTCPUDPRecord(sm, payload, ords) ==
    LET plen == payload.len
        t0 == <<Ev("AddUint64(bytesReceived)", plen, 0)>>
    IN IF plen = udpMaxPayloadSize + 1
       THEN Ret(FALSE, t0 \o <<Ev("onDecodeError(ErrServerRTCPPacketTooBigUDP)", 0, 0)>>)
       ELSE LET r == rtcpUnmarshal(payload)
                t1 == t0 \o <<Ev("rtcp.Unmarshal", plen, 0)>>
            IN IF r.err
               THEN Ret(FALSE, t1 \o <<Ev("onDecodeError(rtcp.Unmarshal)", 0, 0)>>)
               ELSE Ret(TRUE, t1 \o <<Ev("StoreInt64(udpLastPacketTime)", now, 0)>>
                              \o rtcpLoopRecord(sm, r.packets, ords, 1))

readRTPTCPPlay(sm, payload, ords) == Ret(FALSE, <<>>)

\* Mutant of readRTCPTCPPlay: the size guard is missing.
readRTCPTCPPlay_NoGuard(sm, payload, ords) ==
    LET r == rtcpUnmarshal(payload)
        t1 == <<Ev("rtcp.Unmarshal", payload.len, 0)>>
    IN IF r.err
       THEN Ret(FALSE, t1 \o <<Ev("onDecodeError(rtcp.Unmarshal)", 0, 0)>>)
       ELSE Ret(TRUE, t1 \o rtcpLoopPlay(r.packets, 1))

readRTCPTCPPlay(sm, payload, ords) ==
    IF payload.len > udpMaxPayloadSize
    THEN Ret(FALSE, <<Ev("onDecodeError(ErrServerRTCPPacketTooBig)",
                         payload.len, udpMaxPayloadSize)>>)
    ELSE LET r == rtcpUnmarshal(payload)
             t1 == <<Ev("rtcp.Unmarshal", payload.len, 0)>>
         IN IF r.err
            THEN Ret(FALSE, t1 \o <<Ev("onDecodeError(rtcp.Unmarshal)", 0, 0)>>)
            ELSE Ret(TRUE, t1 \o rtcpLoopPlay(r.packets, 1))

\* Mutant of readRTPTCPRecord: the packet is dropped instead of dispatched.
readRTPTCPRecord_NoDispatch(sm, payload, ords) ==
    LET pkt == rtpUnmarshal(payload)
        t1 == <<Ev("rtp.Unmarshal", payload.len, 0)>>
    IN IF pkt.err
       THEN Ret(FALSE, t1 \o <<Ev("onDecodeError(rtp.Unmarshal)", 0, 0)>>)
       ELSE IF pkt.PayloadType \notin formats[sm]
       THEN Ret(FALSE, t1 \o <<Ev("onDecodeError(ErrServerRTPPacketUnknownPayloadType)",
                                  pkt.PayloadType, 0)>>)
       ELSE Ret(TRUE, t1)

readRTPTCPRecord(sm, payload, ords) ==
    LET pkt == rtpUnmarshal(payload)
        t1 == <<Ev("rtp.Unmarshal", payload.len, 0)>>
    IN IF pkt.err
       THEN Ret(FALSE, t1 \o <<Ev("onDecodeError(rtp.Unmarshal)", 0, 0)>>)
       ELSE IF pkt.PayloadType \notin formats[sm]
       THEN Ret(FALSE, t1 \o <<Ev("onDecodeError(ErrServerRTPPacketUnknownPayloadType)",
                                  pkt.PayloadType, 0)>>)
       ELSE Ret(TRUE, t1 \o <<Ev("readRTPTCP", pkt.PayloadType, pkt.SSRC)>>)

\* Mutant of readRTCPTCPRecord: a codec error is reported but the read succeeds.
readRTCPTCPRecord_ErrorIgnored(sm, payload, ords) ==
    IF payload.len > udpMaxPayloadSize
    THEN Ret(FALSE, <<Ev("onDecodeError(ErrServerRTCPPacketTooBig)",
                         payload.len, udpMaxPayloadSize)>>)
    ELSE LET r == rtcpUnmarshal(payload)
             t1 == <<Ev("rtcp.Unmarshal", payload.len, 0)>>
         IN IF r.err
            THEN Ret(TRUE, t1 \o <<Ev("onDecodeError(rtcp.Unmarshal)", 0, 0)>>)
            ELSE Ret(TRUE, t1 \o rtcpLoopRecord(sm, r.packets, ords, 1))

readRTCPTCPRecord(sm, payload, ords) ==
    IF payload.len > udpMaxPayloadSize
    THEN Ret(FALSE, <<Ev("onDecodeError(ErrServerRTCPPacketTooBig)",
                         payload.len, udpMaxPayloadSize)>>)
    ELSE LET r == rtcpUnmarshal(payload)
             t1 == <<Ev("rtcp.Unmarshal", payload.len, 0)>>
         IN IF r.err
            THEN Ret(FALSE, t1 \o <<Ev("onDecodeError(rtcp.Unmarshal)", 0, 0)>>)
            ELSE Ret(TRUE, t1 \o rtcpLoopRecord(sm, r.packets, ords, 1))

\* Invoking a callback value.
Call(cb, payload, ords) ==
    CASE cb.fn = "readRTCPUDPPlay" -> readRTCPUDPPlay(cb.sm, payload, ords)
      [] cb.fn = "readRTPUDPRecord" -> readRTPUDPRecord(cb.sm, payload, ords)
      [] cb.fn = "readRTCPUDPRecord" -> readRTCPUDPRecord(cb.sm, payload, ords)
      [] cb.fn = "readRTPTCPPlay" -> readRTPTCPPlay(cb.sm, payload, ords)
      [] cb.fn = "readRTCPTCPPlay" -> readRTCPTCPPlay(cb.sm, payload, ords)
      [] cb.fn = "readRTPTCPRecord" -> readRTPTCPRecord(cb.sm, payload, ords)
      [] cb.fn = "readRTCPTCPRecord" -> readRTCPTCPRecord(cb.sm, payload, ords)

(***************************************************************************)
(* initialize, start and stop.                                             *)
(***************************************************************************)
\* initialize(): the formats map is filled only when the session is in
\* ServerSessionStatePreRecord, the state that precedes ServerSessionStateRecord.
initialize(sm, st) ==
    IF st = "ServerSessionStateRecord" THEN MediaFormats(sm) ELSE {}

EvW(name, payload, addr) == [ev |-> name, a |-> payload.len, b |-> addr, fn |-> payload.enc]

\* for _, sf := range sm.formats { sf.start() }    (what = "sf.start")
\* for _, sf := range sm.formats { sf.stop() }     (what = "sf.stop")
RECURSIVE rangeFormats(_, _, _)
rangeFormats(what, ord, i) ==
    IF i > Len(ord) THEN <<>>
    ELSE <<Ev(what, ord[i], 0)>> \o rangeFormats(what, ord, i + 1)

\* Mutant of startUDP: in the Play role the data callback is registered too.
startUDP_PlayRegistersData(sm) ==
    <<EvFn("writePacketRTPInQueue=", 0, "writePacketRTPInQueueUDP"),
      EvFn("writePacketRTCPInQueue=", 0, "writePacketRTCPInQueueUDP")>>
    \o (IF setuppedTransport = "TransportUDP"
        THEN IF state = "ServerSessionStatePlay"
             THEN <<EvFn("udpRTPListener.addClient", udpRTPReadPort(sm), "readRTPUDPRecord"),
                    EvFn("udpRTCPListener.addClient", udpRTCPReadPort(sm), "readRTCPUDPPlay")>>
             ELSE <<EvW("udpRTPListener.write", EmptyRTP, udpRTPWriteAddr(sm)),
                    EvW("udpRTCPListener.write", EmptyRTCP, udpRTCPWriteAddr(sm)),
                    EvFn("udpRTPListener.addClient", udpRTPReadPort(sm), "readRTPUDPRecord"),
                    EvFn("udpRTCPListener.addClient", udpRTCPReadPort(sm), "readRTCPUDPRecord")>>
        ELSE <<>>)

\* Mutant of startUDP: the callbacks are registered before the firewall is opened.
startUDP_RegisterFirst(sm) ==
    <<EvFn("writePacketRTPInQueue=", 0, "writePacketRTPInQueueUDP"),
      EvFn("writePacketRTCPInQueue=", 0, "writePacketRTCPInQueueUDP")>>
    \o (IF setuppedTransport = "TransportUDP"
        THEN IF state = "ServerSessionStatePlay"
             THEN <<EvFn("udpRTCPListener.addClient", udpRTCPReadPort(sm), "readRTCPUDPPlay")>>
             ELSE <<EvFn("udpRTPListener.addClient", udpRTPReadPort(sm), "readRTPUDPRecord"),
                    EvFn("udpRTCPListener.addClient", udpRTCPReadPort(sm), "readRTCPUDPRecord"),
                    EvW("udpRTPListener.write", EmptyRTP, udpRTPWriteAddr(sm)),
                    EvW("udpRTCPListener.write", EmptyRTCP, udpRTCPWriteAddr(sm))>>
        ELSE <<>>)

\* The UDP branch of start()'s switch.
startUDP(sm) ==
    <<EvFn("writePacketRTPInQueue=", 0, "writePacketRTPInQueueUDP"),
      EvFn("writePacketRTCPInQueue=", 0, "writePacketRTCPInQueueUDP")>>
    \o (IF setuppedTransport = "TransportUDP"
        THEN IF state = "ServerSessionStatePlay"
             THEN <<EvFn("udpRTCPListener.addClient", udpRTCPReadPort(sm), "readRTCPUDPPlay")>>
             ELSE <<EvW("udpRTPListener.write", EmptyRTP, udpRTPWriteAddr(sm)),
                    EvW("udpRTCPListener.write", EmptyRTCP, udpRTCPWriteAddr(sm)),
                    EvFn("udpRTPListener.addClient", udpRTPReadPort(sm), "readRTPUDPRecord"),
                    EvFn("udpRTCPListener.addClient", udpRTCPReadPort(sm), "readRTCPUDPRecord")>>
        ELSE <<>>)

\* Mutant of startTCP: the write slots get the UDP strategies.
startTCP_UDPWriters(sm) ==
    <<EvFn("writePacketRTPInQueue=", 0, "writePacketRTPInQueueUDP"),
      EvFn("writePacketRTCPInQueue=", 0, "writePacketRTCPInQueueUDP")>>
    \o (IF tcpCallbackByChannel.isNil THEN <<Ev("make(tcpCallbackByChannel)", 0, 0)>> ELSE <<>>)
    \o (IF state = "ServerSessionStatePlay"
        THEN <<EvFn("tcpCallbackByChannel[]=", tcpChannel(sm), "readRTPTCPPlay"),
               EvFn("tcpCallbackByChannel[]=", tcpChannel(sm) + 1, "readRTCPTCPPlay")>>
        ELSE <<EvFn("tcpCallbackByChannel[]=", tcpChannel(sm), "readRTPTCPRecord"),
               EvFn("tcpCallbackByChannel[]=", tcpChannel(sm) + 1, "readRTCPTCPRecord")>>)

\* Mutant of startTCP: the handlers of the other role are bound.
startTCP_RolesSwapped(sm) ==
    <<EvFn("writePacketRTPInQueue=", 0, "writePacketRTPInQueueTCP"),
      EvFn("writePacketRTCPInQueue=", 0, "writePacketRTCPInQueueTCP")>>
    \o (IF tcpCallbackByChannel.isNil THEN <<Ev("make(tcpCallbackByChannel)", 0, 0)>> ELSE <<>>)
    \o (IF state = "ServerSessionStatePlay"
        THEN <<EvFn("tcpCallbackByChannel[]=", tcpChannel(sm), "readRTPTCPRecord"),
               EvFn("tcpCallbackByChannel[]=", tcpChannel(sm) + 1, "readRTCPTCPRecord")>>
        ELSE <<EvFn("tcpCallbackByChannel[]=", tcpChannel(sm), "readRTPTCPPlay"),
               EvFn("tcpCallbackByChannel[]=", tcpChannel(sm) + 1, "readRTCPTCPPlay")>>)

\* The TCP branch of start()'s switch.
startTCP(sm) ==
    <<EvFn("writePacketRTPInQueue=", 0, "writePacketRTPInQueueTCP"),
      EvFn("writePacketRTCPInQueue=", 0, "writePacketRTCPInQueueTCP")>>
    \o (IF tcpCallbackByChannel.isNil THEN <<Ev("make(tcpCallbackByChannel)", 0, 0)>> ELSE <<>>)
    \o (IF state = "ServerSessionStatePlay"
        THEN <<EvFn("tcpCallbackByChannel[]=", tcpChannel(sm), "readRTPTCPPlay"),
               EvFn("tcpCallbackByChannel[]=", tcpChannel(sm) + 1, "readRTCPTCPPlay")>>
        ELSE <<EvFn("tcpCallbackByChannel[]=", tcpChannel(sm), "readRTPTCPRecord"),
               EvFn("tcpCallbackByChannel[]=", tcpChannel(sm) + 1, "readRTCPTCPRecord")>>)

\* Mutant of start: the pipelines are started after the switch.
start_RegisterFirst(sm, ord) ==
    (IF setuppedTransport \in {"TransportUDP", "TransportUDPMulticast"}
     THEN startUDP(sm)
     ELSE startTCP(sm))
    \o rangeFormats("sf.start", ord, 1)

start(sm, ord) ==
    rangeFormats("sf.start", ord, 1)
    \o (IF setuppedTransport \in {"TransportUDP", "TransportUDPMulticast"}
        THEN startUDP(sm)
        ELSE startTCP(sm))

\* Mutant of stop: the control callback stays registered.
stop_KeepRTCPClient(sm, ord) ==
    (IF setuppedTransport = "TransportUDP"
     THEN <<Ev("udpRTPListener.removeClient", udpRTPReadPort(sm), 0)>>
     ELSE <<>>)
    \o rangeFormats("sf.stop", ord, 1)

stop(sm, ord) ==
    (IF setuppedTransport = "TransportUDP"
     THEN <<Ev("udpRTPListener.removeClient", udpRTPReadPort(sm), 0),
            Ev("udpRTCPListener.removeClient", udpRTCPReadPort(sm), 0)>>
     ELSE <<>>)
    \o rangeFormats("sf.stop", ord, 1)

(***************************************************************************)
(* The collaborators: what each event does to them.                        *)
(***************************************************************************)
\* serverUDPListener.addClient / removeClient: one callback per (ip, port).
addClient(clients, port, cb) == [clients EXCEPT ![port] = cb]
removeClient(clients, port) == [clients EXCEPT ![port] = NoCb]

RECURSIVE listenerAfter(_, _, _, _)
listenerAfter(clients, listener, sm, trace) ==
    IF trace = <<>> THEN clients
    ELSE LET e == Head(trace)
             c == IF e.ev = listener[1] THEN addClient(clients, e.a, Cb(e.fn, sm))
                  ELSE IF e.ev = listener[2] THEN removeClient(clients, e.a)
                  ELSE clients
         IN listenerAfter(c, listener, sm, Tail(trace))

udpRTPListener == <<"udpRTPListener.addClient", "udpRTPListener.removeClient">>
udpRTCPListener == <<"udpRTCPListener.addClient", "udpRTCPListener.removeClient">>

\* The session's channel table after the assignments of `trace`.
RECURSIVE tableAfter(_, _, _)
tableAfter(table, sm, trace) ==
    IF trace = <<>> THEN table
    ELSE LET e == Head(trace)
             t == IF e.ev = "make(tcpCallbackByChannel)"
                  THEN [isNil |-> FALSE, m |-> [c \in Channels |-> NoCb]]
                  ELSE IF e.ev = "tcpCallbackByChannel[]="
                  THEN [table EXCEPT !.m[e.a] = Cb(e.fn, sm)]
                  ELSE table
         IN tableAfter(t, sm, Tail(trace))

\* A write slot after the assignments of `trace`.
slotAfter(slot, name, trace) ==
    LET set == Events(trace, {name})
    IN IF set = <<>> THEN slot ELSE set[Len(set)].fn

\* serverSessionFormat.start / stop: the pipeline runs between the two;
\* start creates a fresh rtcpReceiver, which has seen no sender yet.
startedAfter(started, trace) ==
    [pt \in PayloadTypes |->
        LET set == Events(trace, {"sf.start", "sf.stop"})
            mine == SelectSeq(set, LAMBDA e : e.a = pt)
        IN IF mine = <<>> THEN started[pt] ELSE mine[Len(mine)].ev = "sf.start"]

NoSSRC == [ok |-> FALSE, ssrc |-> 0]

\* rtcpReceiver.SenderSSRC() after the events of `trace`: the SSRC of the
\* last data packet the pipeline was handed.
ssrcAfter(seen, trace) ==
    [pt \in PayloadTypes |->
        LET set == Events(trace, {"sf.start", "readRTPUDP", "readRTPTCP"})
            mine == SelectSeq(set, LAMBDA e : e.a = pt)
            latest == mine[Len(mine)]
        IN IF mine = <<>> THEN seen[pt]
           ELSE IF latest.ev = "sf.start" THEN NoSSRC
           ELSE [ok |-> TRUE, ssrc |-> latest.b]]

\* Mutant of AddUint64: the counter is stored, not added to.
AddUint64_Store(counter, n) == n

\* atomic.AddUint64(counter, n)
AddUint64(counter, n) == counter + n

\* The received-byte counter after the events of `trace`.
RECURSIVE receivedAfter(_, _)
receivedAfter(counter, trace) ==
    IF trace = <<>> THEN counter
    ELSE receivedAfter(IF Head(trace).ev = "AddUint64(bytesReceived)"
                       THEN AddUint64(counter, Head(trace).a)
                       ELSE counter, Tail(trace))

\* atomic.StoreInt64(sm.ss.udpLastPacketTime, now.Unix())
lastPacketTimeAfter(t, trace) ==
    LET set == Events(trace, {"StoreInt64(udpLastPacketTime)"})
    IN IF set = <<>> THEN t ELSE set[Len(set)].a

(***************************************************************************)
(* The write strategies, as the statements they run in program order.      *)
(***************************************************************************)
WriteTimeout == 10

writePacketRTPInQueueUDP(sm, payload) ==
    <<Ev("AddUint64(bytesSent)", payload.len, 0),
      EvW("udpRTPListener.write", payload, udpRTPWriteAddr(sm))>>

writePacketRTCPInQueueUDP(sm, payload) ==
    <<Ev("AddUint64(bytesSent)", payload.len, 0),
      EvW("udpRTCPListener.write", payload, udpRTCPWriteAddr(sm))>>

\* Mutant of writePacketRTPInQueueTCP: the deadline is set after the frame is written.
writePacketRTPInQueueTCP_DeadlineAfterWrite(sm, payload) ==
    <<Ev("AddUint64(bytesSent)", payload.len, 0),
      Ev("tcpFrame.Channel=", tcpChannel(sm), 0),
      Ev("tcpFrame.Payload=", payload.len, 0),
      Ev("WriteInterleavedFrame", 0, 0),
      Ev("SetWriteDeadline", WriteTimeout, 0)>>

writePacketRTPInQueueTCP(sm, payload) ==
    <<Ev("AddUint64(bytesSent)", payload.len, 0),
      Ev("tcpFrame.Channel=", tcpChannel(sm), 0),
      Ev("tcpFrame.Payload=", payload.len, 0),
      Ev("SetWriteDeadline", WriteTimeout, 0),
      Ev("WriteInterleavedFrame", 0, 0)>>

\* Mutant of writePacketRTCPInQueueTCP: the frame goes out on the data channel.
writePacketRTCPInQueueTCP_DataChannel(sm, payload) ==
    <<Ev("AddUint64(bytesSent)", payload.len, 0),
      Ev("tcpFrame.Channel=", tcpChannel(sm), 0),
      Ev("tcpFrame.Payload=", payload.len, 0),
      Ev("SetWriteDeadline", WriteTimeout, 0),
      Ev("WriteInterleavedFrame", 0, 0)>>

writePacketRTCPInQueueTCP(sm, payload) ==
    <<Ev("AddUint64(bytesSent)", payload.len, 0),
      Ev("tcpFrame.Channel=", tcpChannel(sm) + 1, 0),
      Ev("tcpFrame.Payload=", payload.len, 0),
      Ev("SetWriteDeadline", WriteTimeout, 0),
      Ev("WriteInterleavedFrame", 0, 0)>>

\* Invoking a write slot.
CallSlot(fn, sm, payload) ==
    CASE fn = "writePacketRTPInQueueUDP" -> writePacketRTPInQueueUDP(sm, payload)
      [] fn = "writePacketRTCPInQueueUDP" -> writePacketRTCPInQueueUDP(sm, payload)
      [] fn = "writePacketRTPInQueueTCP" -> writePacketRTPInQueueTCP(sm, payload)
      [] fn = "writePacketRTCPInQueueTCP" -> writePacketRTCPInQueueTCP(sm, payload)

\* The payloads the stream hands to the write strategies.
WritePayloads == {RTPPayload(12, 96, 1), RTCPPayload(28, <<SenderReport(1)>>)}
WriteKind(payload) == IF payload.enc = "rtp" THEN "RTP" ELSE "RTCP"
NoPayload == BadPayload(0)

(***************************************************************************)
(* Initial state: the session has been set up and every unit initialized.  *)
(***************************************************************************)
\* The record of a handler invocation: op is "start", "stop" or "deliver";
\* total is the sum of the lengths of the datagrams handed to UDP callbacks
\* so far.
NoOp ==
    [op |-> "", sm |-> 0, trace |-> <<>>, ret |-> FALSE,
     via |-> "", key |-> 0, payload |-> NoPayload, cb |-> NoCb,
     afterStop |-> FALSE, again |-> FALSE, changed |-> FALSE,
     received |-> 0, lastPacketTime |-> 0, total |-> 0]
\* The two shared UDP listeners; each runs its callbacks on its own read loop.
Listeners == {"udpRTPListener", "udpRTCPListener"}

\* A read loop that is between two datagrams.
Idle ==
    [cb |-> NoCb, payload |-> NoPayload, ret |-> FALSE, done |-> <<>>, rest |-> <<>>,
     received |-> 0]

\* The record of a write strategy invocation: slot is the strategy, serial
\* tells that no other invocation ran while it did, deadlineAt is the clock
\* at which it set the write deadline (0: it has not set one).
NoWrite ==
    [sm |-> 0, fn |-> "", payload |-> NoPayload, ok |-> FALSE, addr |-> 0,
     frame |-> [Channel |-> 0, Payload |-> NoPayload], deadline |-> 0,
     slot |-> "", serial |-> FALSE, deadlineAt |-> 0]

Init ==
    /\ setuppedTransport \in Transports
    /\ state \in States
    /\ formats = [sm \in Units |-> initialize(sm, state)]
    /\ formatStarted = [sm \in Units |-> [pt \in PayloadTypes |-> FALSE]]
    /\ senderSSRC = [sm \in Units |-> [pt \in PayloadTypes |-> NoSSRC]]
    /\ writePacketRTPInQueue = [sm \in Units |-> ""]
    /\ writePacketRTCPInQueue = [sm \in Units |-> ""]
    /\ udpRTPClients = [p \in Ports |-> NoCb]
    /\ udpRTCPClients = [p \in Ports |-> NoCb]
    /\ tcpCallbackByChannel = [isNil |-> TRUE, m |-> [c \in Channels |-> NoCb]]
    /\ bytesSent = 0
    /\ bytesReceived = 0
    /\ udpLastPacketTime = 0
    /\ tcpFrame = [Channel |-> 0, Payload |-> NoPayload]
    /\ writeDeadline = 0
    /\ now = 1
    /\ wpc = [sm \in Units |-> <<>>]
    /\ wpayload = [sm \in Units |-> NoPayload]
    /\ lifecycle = [sm \in Units |-> "new"]
    /\ nDeliveries = 0
    /\ nWrites = 0
    /\ rpc = [l \in Listeners |-> Idle]
    /\ sentTotal = 0
    /\ last = NoOp
    /\ lastWrite = NoWrite

ingressVars == <<nDeliveries, bytesReceived, udpLastPacketTime, rpc>>
egressVars == <<bytesSent, tcpFrame, writeDeadline, wpc, wpayload, nWrites, sentTotal, lastWrite>>
configVars == <<setuppedTransport, state, formats>>
wiringVars == <<writePacketRTPInQueue, writePacketRTCPInQueue, udpRTPClients,
                udpRTCPClients, tcpCallbackByChannel, formatStarted>>
\* What the program itself holds (the bookkeeping of the model left out).
programVars == <<formatStarted, senderSSRC, writePacketRTPInQueue, writePacketRTCPInQueue,
                 udpRTPClients, udpRTCPClients, tcpCallbackByChannel, bytesSent,
                 bytesReceived, udpLastPacketTime, tcpFrame, writeDeadline>>

(***************************************************************************)
(* Lifecycle actions.                                                      *)
(***************************************************************************)
\* The state after a lifecycle handler of unit sm has run the events `trace`.
Wire(sm, trace) ==
    /\ formatStarted' = [formatStarted EXCEPT ![sm] = startedAfter(@, trace)]
    /\ senderSSRC' = [senderSSRC EXCEPT ![sm] = ssrcAfter(@, trace)]
    /\ writePacketRTPInQueue' =
           [writePacketRTPInQueue EXCEPT ![sm] = slotAfter(@, "writePacketRTPInQueue=", trace)]
    /\ writePacketRTCPInQueue' =
           [writePacketRTCPInQueue EXCEPT ![sm] = slotAfter(@, "writePacketRTCPInQueue=", trace)]
    /\ udpRTPClients' = listenerAfter(udpRTPClients, udpRTPListener, sm, trace)
    /\ udpRTCPClients' = listenerAfter(udpRTCPClients, udpRTCPListener, sm, trace)
    /\ tcpCallbackByChannel' = tableAfter(tcpCallbackByChannel, sm, trace)

\* The session starts a unit that is not running.
Start(sm) ==
    /\ lifecycle[sm] # "started"
    /\ \E ord \in Orders(sm) :
          LET trace == start(sm, ord)
          IN /\ Wire(sm, trace)
             /\ last' = [NoOp EXCEPT !.op = "start", !.sm = sm, !.trace = trace,
                                     !.total = last.total]
    /\ lifecycle' = [lifecycle EXCEPT ![sm] = "started"]
    /\ UNCHANGED <<configVars, ingressVars, egressVars, now>>

\* The session stops a unit it has started; it may stop it again.
Stop(sm) ==
    /\ lifecycle[sm] # "new"
    /\ \E ord \in Orders(sm) :
          LET trace == stop(sm, ord)
          IN /\ Wire(sm, trace)
             /\ UNCHANGED <<configVars, ingressVars, egressVars, now>>
             /\ last' = [NoOp EXCEPT !.op = "stop", !.sm = sm, !.trace = trace,
                                     !.again = lifecycle[sm] = "stopped",
                                     !.changed = programVars' # programVars,
                                     !.total = last.total]
    /\ lifecycle' = [lifecycle EXCEPT ![sm] = "stopped"]

Tick ==
    /\ now < MaxTime
    /\ now' = now + 1
    /\ UNCHANGED <<configVars, wiringVars, senderSSRC, ingressVars, egressVars,
                   lifecycle, last>>

(***************************************************************************)
(* Ingress: a datagram or a frame is handed to whatever callback is        *)
(* registered for the address or channel it arrived on.                    *)
(***************************************************************************)
\* The iteration orders a handler may meet, one per sub-packet of a compound.
OrdsFor(cb, payload) ==
    IF cb.fn \in {"readRTCPUDPRecord", "readRTCPTCPRecord"} /\ payload.enc = "rtcp"
    THEN [1..Len(payload.subs) -> Orders(cb.sm)]
    ELSE {<<>>}

DeliverTo(via, key, cb, owner, payload) ==
    /\ nDeliveries < MaxDeliveries
    /\ \E ords \in OrdsFor(cb, payload) :
          LET r == IF cb = NoCb THEN Ret(FALSE, <<>>) ELSE Call(cb, payload, ords)
          IN /\ bytesReceived' = receivedAfter(bytesReceived, r.trace)
             /\ udpLastPacketTime' = lastPacketTimeAfter(udpLastPacketTime, r.trace)
             /\ senderSSRC' = IF cb = NoCb THEN senderSSRC
                              ELSE [senderSSRC EXCEPT ![cb.sm] = ssrcAfter(@, r.trace)]
             /\ last' = [NoOp EXCEPT !.op = "deliver", !.sm = owner, !.trace = r.trace,
                                     !.ret = r.ret, !.via = via, !.key = key,
                                     !.payload = payload, !.cb = cb,
                                     !.afterStop = lifecycle[owner] = "stopped",
                                     !.received = bytesReceived,
                                     !.lastPacketTime = udpLastPacketTime,
                                     !.total = IF cb # NoCb /\ via # "tcpCallbackByChannel"
                                               THEN last.total + payload.len
                                               ELSE last.total]
    /\ nDeliveries' = nDeliveries + 1
    /\ UNCHANGED <<configVars, wiringVars, egressVars, now, lifecycle, rpc>>

\* A datagram from the peer's data port reaches the data listener.
DeliverUDPRTP(sm, payload) ==
    /\ setuppedTransport # "TransportTCP"
    /\ DeliverTo("udpRTPListener", udpRTPReadPort(sm),
                 udpRTPClients[udpRTPReadPort(sm)], sm, payload)

\* A datagram from the peer's control port reaches the control listener.
DeliverUDPRTCP(sm, payload) ==
    /\ setuppedTransport # "TransportTCP"
    /\ DeliverTo("udpRTCPListener", udpRTCPReadPort(sm),
                 udpRTCPClients[udpRTCPReadPort(sm)], sm, payload)

ChannelOwner(ch) == CHOOSE sm \in Units : ch \in {tcpChannel(sm), tcpChannel(sm) + 1}

\* An interleaved frame on channel ch reaches the session's channel table.
DeliverTCP(ch, payload) ==
    /\ setuppedTransport = "TransportTCP"
    /\ DeliverTo("tcpCallbackByChannel", ch, tcpCallbackByChannel.m[ch],
                 ChannelOwner(ch), payload)

(***************************************************************************)
(* Concurrent UDP ingress: the data listener and the control listener each *)
(* run the callbacks of their datagrams on their own read loop, so that a  *)
(* callback of one may run between the clock read (now := timeNow()) and   *)
(* the atomic.StoreInt64 of a callback of the other.                       *)
(***************************************************************************)
ListenerClients(l) == IF l = "udpRTPListener" THEN udpRTPClients ELSE udpRTCPClients
ListenerPort(l, sm) == IF l = "udpRTPListener" THEN udpRTPReadPort(sm) ELSE udpRTCPReadPort(sm)

\* The position of the timestamp store in `trace`, 0 if it has none.
StoreAt(trace) ==
    LET at == {i \in DOMAIN trace : trace[i].ev = "StoreInt64(udpLastPacketTime)"}
    IN IF at = {} THEN 0 ELSE CHOOSE i \in at : \A j \in at : i <= j

\* The record of the delivery that read loop l has completed.
Delivered(l, key, run, before, total) ==
    [NoOp EXCEPT !.op = "deliver", !.sm = run.cb.sm, !.trace = run.done \o run.rest,
                 !.ret = run.ret, !.via = l, !.key = key, !.payload = run.payload,
                 !.cb = run.cb, !.received = run.received, !.lastPacketTime = before,
                 !.total = total]

\* Read loop l hands a datagram to the callback registered for its source.
\* The callback runs up to and including its clock read; a callback that
\* returns before it reads the clock runs to its end.
ReadClock(l, sm, payload) ==
    LET cb == ListenerClients(l)[ListenerPort(l, sm)]
    IN /\ setuppedTransport # "TransportTCP"
       /\ rpc[l] = Idle
       /\ cb # NoCb
       /\ nDeliveries < MaxDeliveries
       /\ \E ords \in OrdsFor(cb, payload) :
             LET r == Call(cb, payload, ords)
                 k == StoreAt(r.trace)
                 done == IF k = 0 THEN r.trace ELSE SubSeq(r.trace, 1, k - 1)
                 rest == IF k = 0 THEN <<>> ELSE SubSeq(r.trace, k, Len(r.trace))
                 run == [cb |-> cb, payload |-> payload, ret |-> r.ret, done |-> done,
                         rest |-> rest, received |-> bytesReceived]
             IN /\ bytesReceived' = receivedAfter(bytesReceived, done)
                /\ IF k = 0
                   THEN /\ last' = Delivered(l, ListenerPort(l, sm), run, udpLastPacketTime,
                                           last.total + payload.len)
                        /\ rpc' = rpc
                   ELSE /\ last' = [last EXCEPT !.total = @ + payload.len]
                        /\ rpc' = [rpc EXCEPT ![l] = run]
       /\ nDeliveries' = nDeliveries + 1
       /\ UNCHANGED <<configVars, wiringVars, senderSSRC, udpLastPacketTime, egressVars,
                      now, lifecycle>>

\* The callback on read loop l stores the clock value it has read and runs
\* to its end.
ReadStore(l) ==
    /\ rpc[l] # Idle
    /\ udpLastPacketTime' = lastPacketTimeAfter(udpLastPacketTime, rpc[l].rest)
    /\ senderSSRC' = [senderSSRC EXCEPT ![rpc[l].cb.sm] = ssrcAfter(@, rpc[l].rest)]
    /\ last' = Delivered(l, ListenerPort(l, rpc[l].cb.sm), rpc[l], udpLastPacketTime,
                         last.total)
    /\ rpc' = [rpc EXCEPT ![l] = Idle]
    /\ UNCHANGED <<configVars, wiringVars, nDeliveries, bytesReceived, egressVars,
                   now, lifecycle>>

(***************************************************************************)
(* Egress: a caller invokes a write slot; the strategy runs statement by   *)
(* statement, so that writers of different units interleave.               *)
(***************************************************************************)
egressRest == <<configVars, wiringVars, senderSSRC, ingressVars, now, lifecycle, last>>

\* The call and the strategy's first statement, the atomic add.
WriteCall(sm, kind, payload) ==
    LET fn == IF kind = "RTP" THEN writePacketRTPInQueue[sm] ELSE writePacketRTCPInQueue[sm]
    IN /\ fn # ""
       /\ wpc[sm] = <<>>
       /\ nWrites < MaxWrites
       /\ LET prog == CallSlot(fn, sm, payload)
          IN /\ bytesSent' = AddUint64(bytesSent, Head(prog).a)
             /\ wpc' = [wpc EXCEPT ![sm] = Tail(prog)]
       /\ wpayload' = [wpayload EXCEPT ![sm] = payload]
       /\ sentTotal' = sentTotal + payload.len
       /\ nWrites' = nWrites + 1
       /\ lastWrite' = [NoWrite EXCEPT !.sm = sm, !.fn = fn, !.payload = payload,
                                       !.slot = fn,
                                       !.serial = \A u \in Units : wpc[u] = <<>>]
       /\ UNCHANGED <<egressRest, tcpFrame, writeDeadline>>

WriterAt(sm, names) == wpc[sm] # <<>> /\ Head(wpc[sm]).ev \in names

\* udpRTPListener.write / udpRTCPListener.write: the socket write succeeds or fails.
UDPWrite(sm, ok) ==
    /\ WriterAt(sm, {"udpRTPListener.write", "udpRTCPListener.write"})
    /\ lastWrite' = [lastWrite EXCEPT !.sm = sm, !.payload = wpayload[sm], !.ok = ok,
                                      !.addr = Head(wpc[sm]).b, !.fn = Head(wpc[sm]).ev]
    /\ wpc' = [wpc EXCEPT ![sm] = Tail(@)]
    /\ UNCHANGED <<egressRest, bytesSent, tcpFrame, writeDeadline, wpayload, nWrites, sentTotal>>

\* sm.ss.tcpFrame.Channel = ...
TCPSetChannel(sm) ==
    /\ WriterAt(sm, {"tcpFrame.Channel="})
    /\ tcpFrame' = [tcpFrame EXCEPT !.Channel = Head(wpc[sm]).a]
    /\ wpc' = [wpc EXCEPT ![sm] = Tail(@)]
    /\ UNCHANGED <<egressRest, bytesSent, writeDeadline, wpayload, nWrites, sentTotal, lastWrite>>

\* sm.ss.tcpFrame.Payload = payload
TCPSetPayload(sm) ==
    /\ WriterAt(sm, {"tcpFrame.Payload="})
    /\ tcpFrame' = [tcpFrame EXCEPT !.Payload = wpayload[sm]]
    /\ wpc' = [wpc EXCEPT ![sm] = Tail(@)]
    /\ UNCHANGED <<egressRest, bytesSent, writeDeadline, wpayload, nWrites, sentTotal, lastWrite>>

\* sm.ss.tcpConn.nconn.SetWriteDeadline(time.Now().Add(sm.ss.s.WriteTimeout))
TCPSetDeadline(sm) ==
    /\ WriterAt(sm, {"SetWriteDeadline"})
    /\ writeDeadline' = now + Head(wpc[sm]).a
    /\ lastWrite' = [lastWrite EXCEPT !.deadlineAt = now]
    /\ wpc' = [wpc EXCEPT ![sm] = Tail(@)]
    /\ UNCHANGED <<egressRest, bytesSent, tcpFrame, wpayload, nWrites, sentTotal>>

\* sm.ss.tcpConn.conn.WriteInterleavedFrame(sm.ss.tcpFrame, sm.ss.tcpBuffer)
TCPWriteFrame(sm, ok) ==
    /\ WriterAt(sm, {"WriteInterleavedFrame"})
    /\ lastWrite' = [lastWrite EXCEPT !.sm = sm, !.payload = wpayload[sm], !.ok = ok,
                                      !.frame = tcpFrame, !.deadline = writeDeadline,
                                      !.fn = "WriteInterleavedFrame"]
    /\ wpc' = [wpc EXCEPT ![sm] = Tail(@)]
    /\ UNCHANGED <<egressRest, bytesSent, tcpFrame, writeDeadline, wpayload, nWrites, sentTotal>>

(***************************************************************************)
(* Spec: the units' lifecycle and their ingress.                           *)
(* SpecEgress: the units' lifecycle and their egress, the writers of the   *)
(* units interleaving statement by statement.                              *)
(* SpecSerial: egress through a single writer, under a running clock.      *)
(* SpecClock: concurrent UDP ingress, under a running clock.               *)
(***************************************************************************)
Next ==
    \/ \E sm \in Units : Start(sm)
    \/ \E sm \in Units : Stop(sm)
    \/ \E sm \in Units, payload \in Payloads : DeliverUDPRTP(sm, payload)
    \/ \E sm \in Units, payload \in Payloads : DeliverUDPRTCP(sm, payload)
    \/ \E ch \in Channels, payload \in Payloads : DeliverTCP(ch, payload)

Spec == Init /\ [][Next]_vars

NextEgress ==
    \/ \E sm \in Units : Start(sm)
    \/ \E sm \in Units : Stop(sm)
    \/ \E sm \in Units, payload \in WritePayloads :
          WriteCall(sm, WriteKind(payload), payload)
    \/ \E sm \in Units, ok \in BOOLEAN : UDPWrite(sm, ok)
    \/ \E sm \in Units : TCPSetChannel(sm)
    \/ \E sm \in Units : TCPSetPayload(sm)
    \/ \E sm \in Units : TCPSetDeadline(sm)
    \/ \E sm \in Units, ok \in BOOLEAN : TCPWriteFrame(sm, ok)

SpecEgress == Init /\ [][NextEgress]_vars

\* A single writer drains the session's queue: it invokes a write strategy
\* only when the one before has returned.
SerialWriteCall(sm, kind, payload) ==
    /\ \A u \in Units : wpc[u] = <<>>
    /\ WriteCall(sm, kind, payload)

NextSerial ==
    \/ \E sm \in Units : Start(sm)
    \/ \E sm \in Units : Stop(sm)
    \/ Tick
    \/ \E sm \in Units, payload \in WritePayloads :
          SerialWriteCall(sm, WriteKind(payload), payload)
    \/ \E sm \in Units, ok \in BOOLEAN : UDPWrite(sm, ok)
    \/ \E sm \in Units : TCPSetChannel(sm)
    \/ \E sm \in Units : TCPSetPayload(sm)
    \/ \E sm \in Units : TCPSetDeadline(sm)
    \/ \E sm \in Units, ok \in BOOLEAN : TCPWriteFrame(sm, ok)

SpecSerial == Init /\ [][NextSerial]_vars

NextClock ==
    \/ \E sm \in Units : Start(sm)
    \/ \E sm \in Units : Stop(sm)
    \/ Tick
    \/ \E l \in Listeners, sm \in Units, payload \in ClockPayloads :
          ReadClock(l, sm, payload)
    \/ \E l \in Listeners : ReadStore(l)

SpecClock == Init /\ [][NextClock]_vars

(***************************************************************************)
(* Properties.                                                             *)
(***************************************************************************)
UDPReads == {"readRTCPUDPPlay", "readRTPUDPRecord", "readRTCPUDPRecord"}
TCPReads == {"readRTPTCPPlay", "readRTCPTCPPlay", "readRTPTCPRecord", "readRTCPTCPRecord"}
TCPControlReads == {"readRTCPTCPPlay", "readRTCPTCPRecord"}
DataRecordReads == {"readRTPUDPRecord", "readRTPTCPRecord"}
ControlRecordReads == {"readRTCPUDPRecord", "readRTCPTCPRecord"}

\* The last handler that ran was one of the read handlers `fns`.
LastRead(fns) == last.op = "deliver" /\ last.cb.fn \in fns

\* The positions of the events named `names` in `trace`.
Positions(trace, names) == {i \in DOMAIN trace : trace[i].ev \in names}

Writes == {"udpRTPListener.write", "udpRTCPListener.write"}
Registrations ==
    {"udpRTPListener.addClient", "udpRTCPListener.addClient", "tcpCallbackByChannel[]="}

\* start() of unit sm opened the firewall: one empty data packet to the data
\* address, one empty control packet to the control address, both before
\* the first registration.
FirewallOpened(sm, trace) ==
    /\ Events(trace, {"udpRTPListener.write"})
          = <<EvW("udpRTPListener.write", EmptyRTP, udpRTPWriteAddr(sm))>>
    /\ Events(trace, {"udpRTCPListener.write"})
          = <<EvW("udpRTCPListener.write", EmptyRTCP, udpRTCPWriteAddr(sm))>>
    /\ \A i \in Positions(trace, Writes), j \in Positions(trace, Registrations) : i < j

\* C1 as stated: start() of a UDP unicast unit of a session in the Play
\* role writes exactly one empty RTP packet and one empty RTCP packet, both
\* before any addClient.
C1_PlayOpensFirewall ==
    (last.op = "start" /\ setuppedTransport = "TransportUDP"
        /\ state = "ServerSessionStatePlay")
    => FirewallOpened(last.sm, last.trace)

\* C1 amended: it is in the Record role that start() of a UDP unicast unit
\* writes exactly one empty RTP packet and one empty RTCP packet, both before
\* any addClient; in the Play role start() writes no packet at all.
C1_RecordOpensFirewall ==
    (last.op = "start" /\ setuppedTransport = "TransportUDP")
    => IF state = "ServerSessionStateRecord"
       THEN FirewallOpened(last.sm, last.trace)
       ELSE Positions(last.trace, Writes) = {}

C1_Witness ==
    /\ last.op = "start"
    /\ setuppedTransport = "TransportUDP"
    /\ state = "ServerSessionStateRecord"
    /\ Positions(last.trace, Registrations) # {}

\* A delivery that did nothing: no callback ran, no pipeline was invoked and
\* no counter or timestamp moved.
NoOpDelivery ==
    /\ last.cb = NoCb
    /\ last.trace = <<>>
    /\ bytesReceived = last.received
    /\ udpLastPacketTime = last.lastPacketTime

\* A delivery that invoked no pipeline and moved no counter.
QuietDelivery ==
    /\ Events(last.trace, PipelineCalls) = <<>>
    /\ bytesReceived = last.received

SecondStopIdle == (last.op = "stop" /\ last.again) => ~last.changed

\* C2 as stated: after stop() a delivery to the unit's former UDP ports or
\* interleaved channels invokes no pipeline and moves no counter, in every
\* transport mode and role; a second stop() changes nothing.
C2_StopSilencesAll ==
    /\ (last.op = "deliver" /\ last.afterStop) => QuietDelivery
    /\ SecondStopIdle

\* C2 amended: after stop() a delivery to the unit's former UDP ports
\* reaches no callback, invokes no pipeline and moves no counter; a second
\* stop() changes nothing.  (The interleaved channels stay bound.)
C2_StopSilencesUDP ==
    /\ (last.op = "deliver" /\ last.afterStop /\ setuppedTransport # "TransportTCP")
          => NoOpDelivery
    /\ SecondStopIdle

C2_Witness ==
    /\ last.op = "deliver"
    /\ last.afterStop
    /\ setuppedTransport = "TransportUDP"
    /\ state = "ServerSessionStateRecord"
    /\ last.payload.enc = "rtp"
    /\ last.payload.pt \in formats[last.sm]
    /\ last.via = "udpRTPListener"

\* The payload passes the size guard of the read handler fn, if it has one.
PassesGuard(fn, payload) ==
    CASE fn \in UDPReads -> payload.len # udpMaxPayloadSize + 1
      [] fn \in TCPControlReads -> payload.len <= udpMaxPayloadSize
      [] OTHER -> TRUE

\* The data handler of the pipeline, by ingress path.
DataHandler(fn) == IF fn = "readRTPUDPRecord" THEN "readRTPUDP" ELSE "readRTPTCP"

\* C3: a well-formed data packet whose payload type is in the unit's formats,
\* read by readRTPUDPRecord or readRTPTCPRecord, is handed exactly once to
\* the pipeline of that payload type and to no other; the read returns true.
C3_KnownPayloadTypeDispatched ==
    (LastRead(DataRecordReads) /\ last.payload.enc = "rtp"
        /\ PassesGuard(last.cb.fn, last.payload)
        /\ last.payload.pt \in formats[last.cb.sm])
    => /\ last.ret
       /\ Events(last.trace, PipelineCalls)
             = <<Ev(DataHandler(last.cb.fn), last.payload.pt, last.payload.ssrc)>>

C3_Witness ==
    /\ LastRead({"readRTPTCPRecord"})
    /\ last.payload.enc = "rtp"
    /\ last.payload.pt = 97
    /\ last.ret

\* C4: a well-formed data packet whose payload type is not in the unit's
\* formats, read by readRTPUDPRecord or readRTPTCPRecord, is reported once as
\* ErrServerRTPPacketUnknownPayloadType carrying that payload type; the read
\* returns false and no pipeline is invoked.
C4_UnknownPayloadTypeReported ==
    (LastRead(DataRecordReads) /\ last.payload.enc = "rtp"
        /\ PassesGuard(last.cb.fn, last.payload)
        /\ last.payload.pt \notin formats[last.cb.sm])
    => /\ ~last.ret
       /\ Events(last.trace, DecodeErrors)
             = <<Ev("onDecodeError(ErrServerRTPPacketUnknownPayloadType)", last.payload.pt, 0)>>
       /\ Events(last.trace, PipelineCalls) = <<>>

C4_Witness ==
    /\ LastRead({"readRTPUDPRecord"})
    /\ last.payload.enc = "rtp"
    /\ last.payload.pt = 98
    /\ ~last.ret

\* C5: on the three UDP read handlers a datagram of length
\* udpMaxPayloadSize + 1 is reported once as too big, the read returns false,
\* and neither the codec, a pipeline, the RTCP observer nor the liveness
\* timestamp is touched.
C5_FullBufferRejected ==
    (LastRead(UDPReads) /\ last.payload.len = udpMaxPayloadSize + 1)
    => /\ ~last.ret
       /\ Len(Events(last.trace, DecodeErrors)) = 1
       /\ Events(last.trace, DecodeErrors)[1].ev
             = (IF last.cb.fn = "readRTPUDPRecord"
                THEN "onDecodeError(ErrServerRTPPacketTooBigUDP)"
                ELSE "onDecodeError(ErrServerRTCPPacketTooBigUDP)")
       /\ Events(last.trace, CodecCalls \cup PipelineCalls
                    \cup {"onPacketRTCP", "StoreInt64(udpLastPacketTime)"}) = <<>>
       /\ udpLastPacketTime = last.lastPacketTime

C5_Witness ==
    /\ LastRead({"readRTCPUDPPlay"})
    /\ last.payload.len = udpMaxPayloadSize + 1
    /\ last.payload.enc = "rtcp"

\* C6: under the UDP transports every invocation of a write strategy adds
\* its payload's length to bytesSent, whatever the interleaving of the units'
\* writers and whether or not the socket write succeeds: the counter equals
\* the sum of the sizes handed in, and it never decreases.
C6_SentBytesCounted ==
    /\ [](setuppedTransport # "TransportTCP" => bytesSent = sentTotal)
    /\ [][bytesSent' >= bytesSent]_vars

C6_Witness ==
    /\ setuppedTransport = "TransportUDP"
    /\ lastWrite.sm = 1
    /\ lastWrite.fn \in Writes
    /\ ~lastWrite.ok
    /\ wpc[2] # <<>>
    /\ sentTotal = wpayload[1].len + wpayload[2].len

\* The pipelines of unit sm that have observed the sender SSRC x.
Observers(sm, x) == {pt \in formats[sm] : senderSSRC[sm][pt] = [ok |-> TRUE, ssrc |-> x]}

\* The sender-report handler invocations made for sub-packet i.
ReportsFor(trace, i) == SelectSeq(trace, LAMBDA e : e.ev = "ProcessSenderReport" /\ e.b = i)

\* C7: a control packet decoded by readRTCPUDPRecord or readRTCPTCPRecord:
\* for each sender report whose SSRC some pipeline of the unit has observed,
\* exactly one report handler runs, that of a pipeline that observed it; for
\* any other sub-packet none runs; the observer is called once per
\* sub-packet, in packet order, and the read returns true.
C7_SenderReportCorrelated ==
    (LastRead(ControlRecordReads) /\ last.payload.enc = "rtcp"
        /\ PassesGuard(last.cb.fn, last.payload))
    => LET subs == last.payload.subs
           sm == last.cb.sm
       IN /\ last.ret
          /\ Events(last.trace, {"onPacketRTCP"})
                = [i \in 1..Len(subs) |-> Ev("onPacketRTCP", i, 0)]
          /\ \A i \in 1..Len(subs) :
                IF subs[i].typ = "SenderReport" /\ Observers(sm, subs[i].ssrc) # {}
                THEN /\ Len(ReportsFor(last.trace, i)) = 1
                     /\ ReportsFor(last.trace, i)[1].a \in Observers(sm, subs[i].ssrc)
                ELSE ReportsFor(last.trace, i) = <<>>
          /\ \A e \in {last.trace[k] : k \in Positions(last.trace, {"ProcessSenderReport"})} :
                e.b \in 1..Len(subs)

C7_Witness ==
    /\ LastRead(ControlRecordReads)
    /\ last.payload.subs = <<SenderReport(1), SenderReport(2)>>
    /\ Len(Events(last.trace, {"ProcessSenderReport"})) = 1
    /\ last.ret

\* The failures of a read of `payload` by handler fn.
GuardFails(fn, payload) == ~PassesGuard(fn, payload)
CodecFails(fn, payload) ==
    /\ PassesGuard(fn, payload)
    /\ fn # "readRTPTCPPlay"
    /\ payload.enc # (IF fn \in DataRecordReads THEN "rtp" ELSE "rtcp")
RoutingFails(fn, sm, payload) ==
    /\ PassesGuard(fn, payload)
    /\ fn \in DataRecordReads
    /\ payload.enc = "rtp"
    /\ payload.pt \notin formats[sm]

\* C8: a read reports at most one decode error; a size-guard, codec or
\* unknown-payload-type failure reports exactly one; a read that reported
\* an error returns false.
C8_OneErrorPerFailedRead ==
    (last.op = "deliver" /\ last.cb # NoCb)
    => LET errs == Events(last.trace, DecodeErrors)
           fn == last.cb.fn
       IN /\ Len(errs) <= 1
          /\ (GuardFails(fn, last.payload) \/ CodecFails(fn, last.payload)
                \/ RoutingFails(fn, last.cb.sm, last.payload)) => Len(errs) = 1
          /\ Len(errs) = 1 => ~last.ret

C8_Witness ==
    /\ LastRead({"readRTCPTCPRecord"})
    /\ last.payload.enc = "bad"
    /\ last.payload.len <= udpMaxPayloadSize
    /\ Len(Events(last.trace, DecodeErrors)) = 1

\* The read counted its payload first: its first event is the atomic add of
\* the payload's length, and the counter grew by that length.
CountedFirst ==
    /\ last.trace # <<>>
    /\ Head(last.trace) = Ev("AddUint64(bytesReceived)", last.payload.len, 0)
    /\ bytesReceived = last.received + last.payload.len

\* C9 as stated: every read, on the UDP paths and on the interleaved paths
\* readRTPTCPRecord, readRTCPTCPRecord and readRTCPTCPPlay, first adds the
\* payload's length to bytesReceived.
C9_EveryReadCounts ==
    LastRead(UDPReads \cup {"readRTPTCPRecord", "readRTCPTCPRecord", "readRTCPTCPPlay"})
    => CountedFirst

\* C9 amended: every UDP read first adds the datagram's length to
\* bytesReceived; the interleaved read handlers never touch the counter.
C9_UDPReadsCount ==
    /\ LastRead(UDPReads) => CountedFirst
    /\ LastRead(TCPReads) =>
          /\ Events(last.trace, {"AddUint64(bytesReceived)"}) = <<>>
          /\ bytesReceived = last.received

C9_Witness ==
    /\ LastRead({"readRTCPTCPRecord"})
    /\ last.ret
    /\ Len(last.payload.subs) = 2
    /\ bytesReceived = 0

\* The read rejected the payload as too big for the interleaved transport,
\* before the codec, a pipeline or the observer saw it.
RejectedTooBig ==
    /\ ~last.ret
    /\ Events(last.trace, DecodeErrors)
          = <<Ev("onDecodeError(ErrServerRTCPPacketTooBig)", last.payload.len, udpMaxPayloadSize)>>
    /\ Events(last.trace, CodecCalls \cup PipelineCalls \cup {"onPacketRTCP"}) = <<>>

\* C10 as stated: on every interleaved read handler, data as well as
\* control, a payload longer than udpMaxPayloadSize is reported as too big,
\* the read returns false and the payload reaches neither codec, pipeline
\* nor observer.
C10_AllInterleavedGuarded ==
    (LastRead(TCPReads) /\ last.payload.len > udpMaxPayloadSize) => RejectedTooBig

\* C10 amended: on the interleaved control handlers readRTCPTCPPlay and
\* readRTCPTCPRecord a payload longer than udpMaxPayloadSize is reported as
\* ErrServerRTCPPacketTooBig, the read returns false and the payload reaches
\* neither codec, pipeline nor observer.
C10_InterleavedControlGuarded ==
    (LastRead(TCPControlReads) /\ last.payload.len > udpMaxPayloadSize) => RejectedTooBig

C10_Witness ==
    /\ LastRead({"readRTCPTCPPlay"})
    /\ last.payload.len > udpMaxPayloadSize
    /\ last.payload.enc = "rtcp"

\* C11: whatever the interleaving of the UDP callbacks of a session, each of
\* which reads the clock and then stores what it read, a callback's store
\* never makes udpLastPacketTime, the value the watchdog reads, smaller than
\* it was (the clock itself never goes back).
C11_TimestampNeverDecreases ==
    (LastRead(UDPReads) /\ last.ret) => udpLastPacketTime >= last.lastPacketTime

\* The callbacks of unit sm that are registered with a listener or bound in
\* the channel table.
Registered(sm) ==
    {cb \in {udpRTPClients[p] : p \in Ports} \cup {udpRTCPClients[p] : p \in Ports}
              \cup {tcpCallbackByChannel.m[c] : c \in Channels} : cb.sm = sm}

\* C12: start() starts every pipeline of the unit, each once, before it
\* makes its first registration (addClient or channel-table binding); hence a
\* unit with a registered callback has had start() run, and a UDP callback
\* only ever invokes (data handler or report handler after the correlation
\* query) a pipeline that is running.
C12_PipelinesStartedFirst ==
    /\ last.op = "start" =>
          /\ {e.a : e \in {last.trace[i] : i \in Positions(last.trace, {"sf.start"})}}
                = formats[last.sm]
          /\ Len(Events(last.trace, {"sf.start"})) = Cardinality(formats[last.sm])
          /\ \A i \in Positions(last.trace, {"sf.start"}),
                j \in Positions(last.trace, Registrations) : i < j
    /\ \A sm \in Units : Registered(sm) # {} => lifecycle[sm] # "new"
    /\ LastRead(UDPReads) =>
          \A i \in Positions(last.trace, PipelineCalls) :
             formatStarted[last.cb.sm][last.trace[i].a]

C12_Witness ==
    /\ last.op = "start"
    /\ last.sm = 1
    /\ state = "ServerSessionStateRecord"
    /\ setuppedTransport = "TransportTCP"
    /\ Len(Events(last.trace, {"sf.start"})) = 2
    /\ Positions(last.trace, Registrations) # {}

\* The ports at which a callback of unit sm is registered with a listener.
PortsOf(clients, sm) == {p \in Ports : clients[p].sm = sm}

\* C13: start() of a UDP unicast unit in the Play role makes exactly one
\* registration, readRTCPUDPPlay with the control listener for the unit's
\* control port, and none with the data listener; in the Record role it
\* makes exactly two, readRTPUDPRecord for the data port and
\* readRTCPUDPRecord for the control port.  While the unit is started each
\* listener holds for it that one callback at that one port and no other.
C13_UDPRegistrations ==
    /\ (last.op = "start" /\ setuppedTransport = "TransportUDP") =>
          Events(last.trace, {"udpRTPListener.addClient", "udpRTCPListener.addClient"})
             = IF state = "ServerSessionStatePlay"
               THEN <<EvFn("udpRTCPListener.addClient", udpRTCPReadPort(last.sm),
                           "readRTCPUDPPlay")>>
               ELSE <<EvFn("udpRTPListener.addClient", udpRTPReadPort(last.sm),
                           "readRTPUDPRecord"),
                      EvFn("udpRTCPListener.addClient", udpRTCPReadPort(last.sm),
                           "readRTCPUDPRecord")>>
    /\ \A sm \in Units :
          (setuppedTransport = "TransportUDP" /\ lifecycle[sm] = "started") =>
             IF state = "ServerSessionStatePlay"
             THEN /\ PortsOf(udpRTPClients, sm) = {}
                  /\ PortsOf(udpRTCPClients, sm) = {udpRTCPReadPort(sm)}
                  /\ udpRTCPClients[udpRTCPReadPort(sm)] = Cb("readRTCPUDPPlay", sm)
             ELSE /\ PortsOf(udpRTPClients, sm) = {udpRTPReadPort(sm)}
                  /\ udpRTPClients[udpRTPReadPort(sm)] = Cb("readRTPUDPRecord", sm)
                  /\ PortsOf(udpRTCPClients, sm) = {udpRTCPReadPort(sm)}
                  /\ udpRTCPClients[udpRTCPReadPort(sm)] = Cb("readRTCPUDPRecord", sm)

C13_Witness ==
    /\ setuppedTransport = "TransportUDP"
    /\ state = "ServerSessionStatePlay"
    /\ lifecycle[1] = "started"
    /\ lifecycle[2] = "started"
    /\ LastRead({"readRTCPUDPPlay"})
    /\ last.ret

\* C14: once start() has run on an interleaved unit with data channel N, the
\* channel table maps N to the data handler and N + 1 to the control handler
\* of the session's role; in the Play role a frame delivered on N is
\* answered with false and nothing else: no decode error, no codec, pipeline
\* or observer call, no change of the received-byte counter or of the
\* liveness timestamp.
C14_ChannelTable ==
    /\ \A sm \in Units :
          (setuppedTransport = "TransportTCP" /\ lifecycle[sm] # "new") =>
             /\ tcpCallbackByChannel.m[tcpChannel(sm)]
                   = Cb(IF state = "ServerSessionStatePlay"
                        THEN "readRTPTCPPlay" ELSE "readRTPTCPRecord", sm)
             /\ tcpCallbackByChannel.m[tcpChannel(sm) + 1]
                   = Cb(IF state = "ServerSessionStatePlay"
                        THEN "readRTCPTCPPlay" ELSE "readRTCPTCPRecord", sm)
    /\ (last.op = "deliver" /\ last.via = "tcpCallbackByChannel"
           /\ state = "ServerSessionStatePlay"
           /\ last.key = tcpChannel(last.sm) /\ last.cb # NoCb) =>
          /\ last.cb = Cb("readRTPTCPPlay", last.sm)
          /\ ~last.ret
          /\ last.trace = <<>>
          /\ bytesReceived = last.received
          /\ udpLastPacketTime = last.lastPacketTime

C14_Witness ==
    /\ LastRead({"readRTPTCPPlay"})
    /\ last.sm = 2
    /\ last.key = tcpChannel(2)
    /\ last.payload.enc = "rtp"
    /\ last.payload.pt = 96
    /\ tcpCallbackByChannel.m[tcpChannel(1) + 1] = Cb("readRTCPTCPPlay", 1)

\* The write strategy of the session's transport, for the data slot
\* (kind = "RTP") or the control slot (kind = "RTCP").
SlotFor(kind) ==
    "writePacket" \o kind \o "InQueue"
        \o (IF setuppedTransport = "TransportTCP" THEN "TCP" ELSE "UDP")

\* C15: a unit's two write slots are nil until its first start(); from then
\* on they hold the strategies of the session's transport (the UDP writers
\* for UDP unicast and multicast, the TCP writers for interleaved), and no
\* later start(), stop() or write ever changes a slot that is bound.
C15_SlotsBoundOnce ==
    /\ [](\A sm \in Units :
            IF lifecycle[sm] = "new"
            THEN writePacketRTPInQueue[sm] = "" /\ writePacketRTCPInQueue[sm] = ""
            ELSE /\ writePacketRTPInQueue[sm] = SlotFor("RTP")
                 /\ writePacketRTCPInQueue[sm] = SlotFor("RTCP"))
    /\ [][\A sm \in Units :
            /\ writePacketRTPInQueue[sm] # ""
                  => writePacketRTPInQueue'[sm] = writePacketRTPInQueue[sm]
            /\ writePacketRTCPInQueue[sm] # ""
                  => writePacketRTCPInQueue'[sm] = writePacketRTCPInQueue[sm]]_vars

C15_Witness ==
    /\ setuppedTransport = "TransportUDPMulticast"
    /\ lifecycle[1] = "stopped"
    /\ lifecycle[2] = "started"
    /\ lastWrite.sm = 1
    /\ lastWrite.fn = "udpRTCPListener.write"
    /\ writePacketRTCPInQueue[1] = "writePacketRTCPInQueueUDP"

\* The last read was a UDP read of a datagram that passed the size guard and
\* was decoded.
DecodedUDPRead ==
    /\ LastRead(UDPReads)
    /\ PassesGuard(last.cb.fn, last.payload)
    /\ last.payload.enc = (IF last.cb.fn = "readRTPUDPRecord" THEN "rtp" ELSE "rtcp")

\* The read stored the clock value in udpLastPacketTime, once, before it
\* routed anything to a pipeline or to the observer.
StoredBeforeRouting(routing) ==
    /\ Events(last.trace, {"StoreInt64(udpLastPacketTime)"})
          = <<Ev("StoreInt64(udpLastPacketTime)", now, 0)>>
    /\ udpLastPacketTime = now
    /\ \A i \in Positions(last.trace, {"StoreInt64(udpLastPacketTime)"}),
          j \in Positions(last.trace, routing) : i < j

\* The read left the liveness timestamp alone.
TimestampUntouched ==
    /\ Events(last.trace, {"StoreInt64(udpLastPacketTime)"}) = <<>>
    /\ udpLastPacketTime = last.lastPacketTime

\* C16 as stated: on every UDP read a datagram that passes the size guard
\* and is decoded updates the liveness timestamp before routing, also when
\* routing then fails with an unknown payload type; no interleaved read
\* touches the timestamp.
C16_StoredBeforeRouting ==
    /\ DecodedUDPRead =>
          StoredBeforeRouting(PipelineCalls \cup {"onPacketRTCP",
              "onDecodeError(ErrServerRTPPacketUnknownPayloadType)"})
    /\ LastRead(TCPReads) => TimestampUntouched

\* C16 amended: on the UDP control reads a datagram that passes the size
\* guard and is decoded updates the liveness timestamp before anything is
\* routed; on the UDP data read the payload type is looked up first: a known
\* one updates the timestamp before the packet is handed to its pipeline, an
\* unknown one leaves the timestamp as it was.  No interleaved read touches
\* the timestamp.
C16_StoredAfterLookup ==
    /\ DecodedUDPRead =>
          IF RoutingFails(last.cb.fn, last.cb.sm, last.payload)
          THEN ~last.ret /\ TimestampUntouched
          ELSE last.ret /\ StoredBeforeRouting(PipelineCalls \cup {"onPacketRTCP"})
    /\ LastRead(TCPReads) => TimestampUntouched

C16_Witness ==
    /\ DecodedUDPRead
    /\ last.cb.fn = "readRTPUDPRecord"
    /\ last.payload.pt \notin formats[last.cb.sm]
    /\ udpLastPacketTime = 0
    /\ bytesReceived = last.payload.len

\* The names of the statements `prog` holds, of the three the order is about.
OrderOf(prog) ==
    [i \in DOMAIN Events(prog, {"AddUint64(bytesSent)", "SetWriteDeadline",
                                "WriteInterleavedFrame"}) |->
        Events(prog, {"AddUint64(bytesSent)", "SetWriteDeadline",
                      "WriteInterleavedFrame"})[i].ev]

\* An interleaved write strategy that ran alone has written its frame.
SerialFrameWritten == lastWrite.fn = "WriteInterleavedFrame" /\ lastWrite.serial

\* C17: an interleaved write strategy that runs alone (the writes are
\* serialised) adds the payload's length to bytesSent, then sets the write
\* deadline to the clock plus WriteTimeout, then writes one frame that
\* carries channel N for the data strategy, N + 1 for the control strategy,
\* and the caller's payload; the frame write is its last statement, so the
\* framer's result is what it returns and nothing is retried.
C17_SerialisedWriteOrder ==
    /\ \A sm \in Units :
          (setuppedTransport = "TransportTCP" /\ wpc[sm] # <<>>) =>
             /\ bytesSent = sentTotal
             /\ OrderOf(wpc[sm]) \in {<<"SetWriteDeadline", "WriteInterleavedFrame">>,
                                      <<"WriteInterleavedFrame">>}
    /\ SerialFrameWritten =>
          /\ lastWrite.deadlineAt >= 1
          /\ lastWrite.deadline = lastWrite.deadlineAt + WriteTimeout
          /\ lastWrite.frame
                = [Channel |-> IF lastWrite.slot = "writePacketRTPInQueueTCP"
                               THEN tcpChannel(lastWrite.sm)
                               ELSE tcpChannel(lastWrite.sm) + 1,
                   Payload |-> lastWrite.payload]
          /\ wpc[lastWrite.sm] = <<>>
          /\ bytesSent = sentTotal

C17_Witness ==
    /\ SerialFrameWritten
    /\ lastWrite.sm = 2
    /\ lastWrite.slot = "writePacketRTCPInQueueTCP"
    /\ lastWrite.deadlineAt = 1
    /\ now = 2
    /\ ~lastWrite.ok
    /\ nWrites = 2

\* The frame of the invocation that unit sm's writer was last called with.
FrameOf(sm) ==
    [Channel |-> IF WriteKind(wpayload[sm]) = "RTP"
                 THEN tcpChannel(sm) ELSE tcpChannel(sm) + 1,
     Payload |-> wpayload[sm]]

\* C19 as stated: also when the writers of two units run their interleaved
\* strategies at the same time, every frame handed to WriteInterleavedFrame
\* carries the channel and the payload of one single invocation.
C19_FramesNeverMixed ==
    lastWrite.fn = "WriteInterleavedFrame" =>
       \E sm \in Units : wpayload[sm] # NoPayload /\ lastWrite.frame = FrameOf(sm)

\* C19 amended: a frame handed to WriteInterleavedFrame by an invocation
\* during which no other write strategy of the session ran carries the
\* channel and the payload of that invocation.  (Invocations that overlap
\* share sm.ss.tcpFrame and may hand over the channel of one with the
\* payload of the other.)
C19_SerialFramesIntact ==
    SerialFrameWritten => lastWrite.frame = FrameOf(lastWrite.sm)

C19_Witness ==
    /\ SerialFrameWritten
    /\ lastWrite.sm = 1
    /\ WriteKind(wpayload[1]) = "RTCP"
    /\ WriteKind(wpayload[2]) = "RTP"
    /\ wpc[2] = <<>>
    /\ nWrites = 2

\* C18: every invocation of a UDP read handler adds the datagram's length to
\* bytesReceived, also when the size guard, the codec or the payload-type
\* lookup rejects the datagram: the counter equals the sum of the lengths
\* of all datagrams handed to UDP callbacks, however the callbacks of the
\* two listeners interleave and however many of the reads returned false.
C18_ReceivedBytesSum ==
    /\ bytesReceived = last.total
    /\ LastRead(UDPReads) =>
          Events(last.trace, {"AddUint64(bytesReceived)"})
             = <<Ev("AddUint64(bytesReceived)", last.payload.len, 0)>>

C18_Witness ==
    /\ LastRead({"readRTPUDPRecord"})
    /\ RoutingFails(last.cb.fn, last.cb.sm, last.payload)
    /\ ~last.ret
    /\ rpc["udpRTCPListener"] # Idle
    /\ last.received = rpc["udpRTCPListener"].payload.len
    /\ bytesReceived = last.received + last.payload.len

\* What a read that returns false may have done: counted the datagram,
\* called the codec, reported a decode error.
FailureEvents == {"AddUint64(bytesReceived)"} \cup CodecCalls \cup DecodeErrors

\* C20: a read that returns false has invoked no pipeline data handler, no
\* report handler and no observer; it has done nothing but count the
\* datagram (UDP only), call the codec and report at most one decode error,
\* and it has left the liveness timestamp alone.  In the Play role, where
\* the unit owns no pipeline, no read invokes a pipeline handler.
C20_FailedReadConfined ==
    /\ (last.op = "deliver" /\ last.cb # NoCb /\ ~last.ret) =>
          /\ Events(last.trace, PipelineCalls \cup {"onPacketRTCP"}) = <<>>
          /\ Events(last.trace, FailureEvents) = last.trace
          /\ Len(Events(last.trace, DecodeErrors)) <= 1
          /\ udpLastPacketTime = last.lastPacketTime
          /\ bytesReceived
                = last.received + (IF last.cb.fn \in UDPReads THEN last.payload.len ELSE 0)
    /\ (last.op = "deliver" /\ state = "ServerSessionStatePlay") =>
          Events(last.trace, PipelineCalls) = <<>>

C20_Witness ==
    /\ LastRead({"readRTCPUDPRecord"})
    /\ last.payload.enc = "rtp"
    /\ last.payload.len = 64
    /\ ~last.ret
    /\ last.received > 0
    /\ udpLastPacketTime = 1

====
